---- MODULE Spec2Model ----
(***************************************************************************)
(* Model of src/bot.py: the per-user conversation store (user_context),    *)
(* the three command handlers (start, help_command, clear) and the text    *)
(* handler (handle_message) with its exchange with the completion backend. *)
(*                                                                         *)
(* A handler is a coroutine: it runs without interruption up to its next   *)
(* await, so one action of the model is one stretch of a handler between   *)
(* two awaits.  The application is built without concurrent_updates and    *)
(* the handlers are registered blocking, so the dispatcher starts the next *)
(* update only once the handler of the previous one has finished.          *)
(*                                                                         *)
(* user_context, queue, tasks, outbox, arrived and running are the         *)
(* program's state; appended and last are history variables that let the   *)
(* properties speak about what was appended and about the step just taken. *)
(* The transport calls (send_chat_action, reply_text) are taken to         *)
(* complete: the chat platform is outside the modelled program.            *)
(***************************************************************************)
EXTENDS Integers, Sequences, FiniteSets, TLC

VARIABLES user_context, queue, tasks, outbox, arrived, running, appended, last

vars == <<user_context, queue, tasks, outbox, arrived, running, appended, last>>

----------------------------------------------------------------------------
(* Program constants and bounds *)

MAX_CONTEXT_LENGTH == 20

\* Updates that arrive in one behaviour of Spec.
MaxUpdates == 3
\* Updates that may wait for the dispatcher at one time.
MaxQueue == 2
\* Distinct reply texts the backend may return.
NumReplies == 2
\* Text messages that arrive in one behaviour of SpecLong.
MaxLongTexts == 12
\* Reset commands (start, clear) and backend calls without a reply text,
\* counted together, in one behaviour of SpecLong.
LongEvents == 1

Users == {"A", "B"}
Kinds == {"start", "help", "clear", "text"}

\* Contents are tagged pairs so that every message can be told apart.
SYSTEM_PROMPT == <<"prompt", 0>>
None == <<"None", 0>>
Text(n) == <<"text", n>>
Reply(k) == <<"reply", k>>
Replies == {Reply(k) : k \in 1..NumReplies}
NoPayload == <<"none", 0>>
Count(n) == <<"count", n>>

Msg(r, c) == [role |-> r, content |-> c]
SystemMessage == Msg("system", SYSTEM_PROMPT)

----------------------------------------------------------------------------
(* Helpers over the dictionary and the lists *)

\* d[k] = v of a Python dict (insert or overwrite).
Put(d, k, v) == [x \in (DOMAIN d) \cup {k} |-> IF x = k THEN v ELSE d[x]]

\* Removal of a finished task.
Drop(d, k) == [x \in (DOMAIN d) \ {k} |-> d[x]]

\* user_context.get(user_id, [])
GetOrEmpty(d, u) == IF u \in DOMAIN d THEN d[u] ELSE << >>

\* Mutant of KeepRecent: the slice keeps the oldest messages after the
\* system message, c[1:MAX_CONTEXT_LENGTH], instead of the most recent.
KeepOldest(c) == SubSeq(c, 2, MAX_CONTEXT_LENGTH)

\* c[-(MAX_CONTEXT_LENGTH-1):]
KeepRecent(c) ==
    IF Len(c) <= MAX_CONTEXT_LENGTH - 1 THEN c
    ELSE SubSeq(c, Len(c) - (MAX_CONTEXT_LENGTH - 1) + 1, Len(c))

\* Mutant of Trim: the comparison is off by one, len(c) > MAX_CONTEXT_LENGTH + 1.
TrimLate(c) ==
    IF Len(c) > MAX_CONTEXT_LENGTH + 1 THEN <<c[1]>> \o KeepRecent(c) ELSE c

\* if len(c) > MAX_CONTEXT_LENGTH: c = [c[0]] + c[-(MAX_CONTEXT_LENGTH-1):]
Trim(c) ==
    IF Len(c) > MAX_CONTEXT_LENGTH THEN <<c[1]>> \o KeepRecent(c) ELSE c

\* Mutant of GetOrCreate: the entry is created anew on every message.
GetOrCreateAlwaysNew(d, u) == Put(d, u, <<SystemMessage>>)

\* if user_id not in user_context: user_context[user_id] = [system]
GetOrCreate(d, u) == IF u \in DOMAIN d THEN d ELSE Put(d, u, <<SystemMessage>>)

\* The list after the user message is appended and the trim has run.
AfterUserAppend(c, t) == Trim(Append(c, Msg("user", t)))

\* The list after the assistant message is appended.
AfterAssistantAppend(c, r) == Append(c, Msg("assistant", r))

\* len(user_context.get(user_id, [])) - 1
MessagesCount(d, u) == Len(GetOrEmpty(d, u)) - 1

\* Mutant of Reset: every entry of the store is reset, not only the user's.
ResetAll(d, u) == [x \in (DOMAIN d) \cup {u} |-> <<SystemMessage>>]

\* Mutant of Reset: an existing entry is kept (setdefault instead of
\* assignment).
ResetIfAbsent(d, u) == IF u \in DOMAIN d THEN d ELSE Put(d, u, <<SystemMessage>>)

\* user_context[user_id] = [{"role": "system", "content": SYSTEM_PROMPT}]
Reset(d, u) == Put(d, u, <<SystemMessage>>)

\* An entry of the history variable: the message and the update that
\* appended it.
Entry(m, id) == [msg |-> m, turn |-> id]

----------------------------------------------------------------------------
(* Tasks: one running handler each *)

NoEntry == << >>

NewTask(upd, pc) ==
    [id |-> upd.id, user |-> upd.user, kind |-> upd.kind, text |-> upd.text,
     pc |-> pc,
     pre |-> GetOrEmpty(user_context, upd.user),
     afterUser |-> NoEntry,
     request |-> NoEntry,
     resp |-> NoPayload,
     error |-> "none",
     calls |-> 0,
     count |-> 0]

Step(act, u, id) == [act |-> act, user |-> u, id |-> id]

\* The exceptions create() raises: connection failure, error status, timeout.
Errors == {"APIConnectionError", "APIStatusError", "APITimeoutError"}

\* Mutant of Caught: the except clause names the connection error only.
CaughtConnectionOnly(e) == e = "APIConnectionError"

\* except Exception as e: every exception class but CancelledError, which
\* derives from BaseException.
Caught(e) == e \in Errors \cup {"IndexError", "TypeError"}

\* The task table after exception e was raised inside the try block of
\* handler id: the except branch is entered, or the exception leaves the
\* handler.
AfterRaise(id, e) ==
    IF Caught(e)
    THEN [tasks EXCEPT ![id].pc = "reporting", ![id].error = e]
    ELSE Drop(tasks, id)

\* Mutant of CanDispatch: an application built with concurrent_updates(True)
\* starts a handler for every update at once.
CanDispatchConcurrent == running

\* The dispatcher takes the next update only when no handler is running:
\* ApplicationBuilder() without concurrent_updates, handlers blocking.
CanDispatch == running /\ DOMAIN tasks = {}

Head1 == Head(queue)

Init ==
    /\ user_context = << >>
    /\ queue = << >>
    /\ tasks = << >>
    /\ outbox = << >>
    /\ arrived = 0
    /\ running = TRUE
    /\ appended = [u \in Users |-> << >>]
    /\ last = Step("init", "A", 0)

\* An update of user u arrives from the chat platform.
Arrive(u, k) ==
    /\ running
    /\ Len(queue) < MaxQueue
    /\ arrived' = arrived + 1
    /\ queue' = Append(queue,
                   [id |-> arrived + 1, user |-> u, kind |-> k,
                    text |-> IF k = "text" THEN Text(arrived + 1) ELSE NoPayload])
    /\ last' = Step("arrive", u, arrived + 1)
    /\ UNCHANGED <<user_context, tasks, outbox, running, appended>>

\* start, up to its await of reply_text.
DispatchStart ==
    /\ CanDispatch
    /\ queue # << >>
    /\ Head1.kind = "start"
    /\ user_context' = Reset(user_context, Head1.user)
    /\ tasks' = Put(tasks, Head1.id, NewTask(Head1, "welcoming"))
    /\ queue' = Tail(queue)
    /\ appended' = [appended EXCEPT ![Head1.user] = << >>]
    /\ last' = Step("start", Head1.user, Head1.id)
    /\ UNCHANGED <<outbox, arrived, running>>

\* help_command, up to its await of reply_text.
DispatchHelp ==
    /\ CanDispatch
    /\ queue # << >>
    /\ Head1.kind = "help"
    /\ tasks' = Put(tasks, Head1.id, NewTask(Head1, "helping"))
    /\ queue' = Tail(queue)
    /\ last' = Step("help", Head1.user, Head1.id)
    /\ UNCHANGED <<user_context, outbox, arrived, running, appended>>

\* clear, up to its await of reply_text.
DispatchClear ==
    /\ CanDispatch
    /\ queue # << >>
    /\ Head1.kind = "clear"
    /\ user_context' = Reset(user_context, Head1.user)
    /\ tasks' = Put(tasks, Head1.id,
                    [NewTask(Head1, "confirming") EXCEPT
                        !.count = MessagesCount(user_context, Head1.user)])
    /\ queue' = Tail(queue)
    /\ appended' = [appended EXCEPT ![Head1.user] = << >>]
    /\ last' = Step("clear", Head1.user, Head1.id)
    /\ UNCHANGED <<outbox, arrived, running>>

\* The reply of a command handler has been sent; the handler returns.
CommandReplied(id) ==
    /\ running
    /\ id \in DOMAIN tasks
    /\ tasks[id].pc \in {"welcoming", "helping", "confirming"}
    /\ outbox' = Append(outbox,
                    [id |-> id, user |-> tasks[id].user,
                     kind |-> CASE tasks[id].pc = "welcoming" -> "welcome"
                                [] tasks[id].pc = "helping" -> "help"
                                [] OTHER -> "cleared",
                     payload |-> IF tasks[id].pc = "confirming"
                                 THEN Count(tasks[id].count) ELSE NoPayload])
    /\ tasks' = Drop(tasks, id)
    /\ last' = Step("replied", tasks[id].user, id)
    /\ UNCHANGED <<user_context, queue, arrived, running, appended>>

\* handle_message, up to its await of send_chat_action.
DispatchText ==
    /\ CanDispatch
    /\ queue # << >>
    /\ Head1.kind = "text"
    /\ LET u == Head1.user
           c == AfterUserAppend(GetOrCreate(user_context, u)[u], Head1.text)
       IN /\ user_context' = Put(user_context, u, c)
          /\ tasks' = Put(tasks, Head1.id,
                          [NewTask(Head1, "typing") EXCEPT !.afterUser = c])
          /\ appended' = [appended EXCEPT
                             ![u] = Append(@, Entry(Msg("user", Head1.text), Head1.id))]
          /\ last' = Step("user_append", u, Head1.id)
    /\ queue' = Tail(queue)
    /\ UNCHANGED <<outbox, arrived, running>>

\* send_chat_action has completed; the request is issued with the list the
\* store holds for the user at this moment.
SendRequest(id) ==
    /\ running
    /\ id \in DOMAIN tasks
    /\ tasks[id].pc = "typing"
    /\ tasks' = [tasks EXCEPT ![id].pc = "awaiting",
                              ![id].calls = @ + 1,
                              ![id].request = user_context[tasks[id].user]]
    /\ last' = Step("request", tasks[id].user, id)
    /\ UNCHANGED <<user_context, queue, outbox, arrived, running, appended>>

\* The backend answers with a choice that carries reply text r.
BackendReturnsText(id, r) ==
    /\ running
    /\ id \in DOMAIN tasks
    /\ tasks[id].pc = "awaiting"
    /\ LET u == tasks[id].user
       IN /\ user_context' = Put(user_context, u,
                                 AfterAssistantAppend(user_context[u], r))
          /\ appended' = [appended EXCEPT
                             ![u] = Append(@, Entry(Msg("assistant", r), id))]
          /\ last' = Step("assistant_append", u, id)
    /\ tasks' = [tasks EXCEPT ![id].pc = "replying", ![id].resp = r]
    /\ UNCHANGED <<queue, outbox, arrived, running>>

\* The backend answers with a choice whose message has no content (None):
\* the append of line 133 runs, then bot_response[:50] raises.
BackendReturnsNoContent(id) ==
    /\ running
    /\ id \in DOMAIN tasks
    /\ tasks[id].pc = "awaiting"
    /\ LET u == tasks[id].user
       IN /\ user_context' = Put(user_context, u,
                                 AfterAssistantAppend(user_context[u], None))
          /\ appended' = [appended EXCEPT
                             ![u] = Append(@, Entry(Msg("assistant", None), id))]
          /\ last' = Step("assistant_append", u, id)
    /\ tasks' = IF Caught("TypeError")
                THEN [AfterRaise(id, "TypeError") EXCEPT ![id].resp = None]
                ELSE AfterRaise(id, "TypeError")
    /\ UNCHANGED <<queue, outbox, arrived, running>>

\* The backend answers with an empty list of choices: choices[0] raises.
BackendReturnsNoChoices(id) ==
    /\ running
    /\ id \in DOMAIN tasks
    /\ tasks[id].pc = "awaiting"
    /\ tasks' = AfterRaise(id, "IndexError")
    /\ last' = Step(IF Caught("IndexError") THEN "backend_failed" ELSE "escaped",
                    tasks[id].user, id)
    /\ UNCHANGED <<user_context, queue, outbox, arrived, running, appended>>

\* create() raises: connection failure, error status or timeout.
BackendRaises(id, e) ==
    /\ running
    /\ id \in DOMAIN tasks
    /\ tasks[id].pc = "awaiting"
    /\ tasks' = AfterRaise(id, e)
    /\ last' = Step(IF Caught(e) THEN "backend_failed" ELSE "escaped",
                    tasks[id].user, id)
    /\ UNCHANGED <<user_context, queue, outbox, arrived, running, appended>>

\* The awaiting task is cancelled: CancelledError is no Exception, the
\* handler is left through neither branch and the update loop ends with it.
BackendCancelled(id) ==
    /\ running
    /\ id \in DOMAIN tasks
    /\ tasks[id].pc = "awaiting"
    /\ tasks' = Drop(tasks, id)
    /\ running' = FALSE
    /\ last' = Step("cancelled", tasks[id].user, id)
    /\ UNCHANGED <<user_context, queue, outbox, arrived, appended>>

\* reply_text(bot_response) has completed; the handler returns.
ReplyDelivered(id) ==
    /\ running
    /\ id \in DOMAIN tasks
    /\ tasks[id].pc = "replying"
    /\ outbox' = Append(outbox, [id |-> id, user |-> tasks[id].user,
                                 kind |-> "reply", payload |-> tasks[id].resp])
    /\ tasks' = Drop(tasks, id)
    /\ last' = Step("replied", tasks[id].user, id)
    /\ UNCHANGED <<user_context, queue, arrived, running, appended>>

\* reply_text(error text) of the except branch has completed.
ErrorDelivered(id) ==
    /\ running
    /\ id \in DOMAIN tasks
    /\ tasks[id].pc = "reporting"
    /\ outbox' = Append(outbox, [id |-> id, user |-> tasks[id].user,
                                 kind |-> "error",
                                 payload |-> <<tasks[id].error, 0>>])
    /\ tasks' = Drop(tasks, id)
    /\ last' = Step("replied", tasks[id].user, id)
    /\ UNCHANGED <<user_context, queue, arrived, running, appended>>

Next ==
    \/ \E u \in Users, k \in Kinds : arrived < MaxUpdates /\ Arrive(u, k)
    \/ DispatchStart
    \/ DispatchHelp
    \/ DispatchClear
    \/ DispatchText
    \/ \E id \in DOMAIN tasks : CommandReplied(id)
    \/ \E id \in DOMAIN tasks : SendRequest(id)
    \/ \E id \in DOMAIN tasks, r \in Replies : BackendReturnsText(id, r)
    \/ \E id \in DOMAIN tasks : BackendReturnsNoContent(id)
    \/ \E id \in DOMAIN tasks : BackendReturnsNoChoices(id)
    \/ \E id \in DOMAIN tasks, e \in Errors : BackendRaises(id, e)
    \/ \E id \in DOMAIN tasks : BackendCancelled(id)
    \/ \E id \in DOMAIN tasks : ReplyDelivered(id)
    \/ \E id \in DOMAIN tasks : ErrorDelivered(id)

Spec == Init /\ [][Next]_vars

----------------------------------------------------------------------------
(* Long conversations of one user: the same handlers, driven by up to      *)
(* MaxLongTexts text messages of user A and at most LongEvents reset       *)
(* commands and backend calls without a reply text, so that the store      *)
(* reaches and passes MAX_CONTEXT_LENGTH.                                  *)

CommandsSeen ==
    Cardinality({i \in 1..Len(queue) : queue[i].kind # "text"})
    + Cardinality({id \in DOMAIN tasks : tasks[id].kind # "text"})
    + Cardinality({i \in 1..Len(outbox) : outbox[i].kind \in {"welcome", "cleared"}})

Failures ==
    Cardinality({id \in DOMAIN tasks : tasks[id].pc = "reporting"})
    + Cardinality({i \in 1..Len(outbox) : outbox[i].kind = "error"})

NextLong ==
    \/ arrived - CommandsSeen < MaxLongTexts /\ Arrive("A", "text")
    \/ \E k \in {"start", "clear"} :
          CommandsSeen + Failures < LongEvents /\ Arrive("A", k)
    \/ DispatchStart
    \/ DispatchClear
    \/ DispatchText
    \/ \E id \in DOMAIN tasks : CommandReplied(id)
    \/ \E id \in DOMAIN tasks : SendRequest(id)
    \/ \E id \in DOMAIN tasks : BackendReturnsText(id, Reply(1))
    \/ \E id \in DOMAIN tasks :
          CommandsSeen + Failures < LongEvents /\ BackendReturnsNoContent(id)
    \/ \E id \in DOMAIN tasks :
          CommandsSeen + Failures < LongEvents /\ BackendRaises(id, "APITimeoutError")
    \/ \E id \in DOMAIN tasks : ReplyDelivered(id)
    \/ \E id \in DOMAIN tasks : ErrorDelivered(id)

SpecLong == Init /\ [][NextLong]_vars

----------------------------------------------------------------------------
(* Vocabulary of the properties *)

Present == DOMAIN user_context

SystemCount(c) == Cardinality({i \in 1..Len(c) : c[i].role = "system"})

\* The turns of user u that have appended their user message and still wait
\* for the end of their backend exchange.
InFlight(u) ==
    {id \in DOMAIN tasks : /\ tasks[id].user = u
                           /\ tasks[id].kind = "text"
                           /\ tasks[id].pc \in {"typing", "awaiting"}}

IsAppend == last.act \in {"user_append", "assistant_append"}

----------------------------------------------------------------------------
(* C1 *)

\* C1 (as stated): after every append the stored context of every user has
\* at most MAX_CONTEXT_LENGTH messages, starts with the system directive and
\* holds exactly one system message.
C1_BoundInvariant ==
    \A u \in Present :
        /\ Len(user_context[u]) <= MAX_CONTEXT_LENGTH
        /\ user_context[u][1] = SystemMessage
        /\ SystemCount(user_context[u]) = 1

----------------------------------------------------------------------------
(* C2 *)

\* C2 (as stated): a turn whose backend call yielded no reply text (it is on
\* its way to the error message) has recorded no assistant message: the
\* stored context is the one left by the append of the turn's user message,
\* and no reply of that turn has been delivered.
C2_FailureLeavesContext ==
    \A id \in DOMAIN tasks :
        tasks[id].pc = "reporting" =>
            /\ user_context[tasks[id].user] = tasks[id].afterUser
            /\ \A i \in 1..Len(outbox) :
                   outbox[i].id = id => outbox[i].kind # "reply"

----------------------------------------------------------------------------
(* C3 *)

\* C3: at most one turn per user is in flight, and while a turn of a user is
\* in flight no step appends the user message of another turn of that user:
\* a second text message waits in the queue.
C3_PerUserExclusion ==
    [][\A u \in Users :
          /\ Cardinality(InFlight(u)') <= 1
          /\ InFlight(u) # {} =>
                ~(last'.act = "user_append" /\ last'.user = u)]_vars

\* A turn of a user is in flight while a text message of the same user waits.
C3_Witness ==
    \E u \in Users :
        /\ InFlight(u) # {}
        /\ \E i \in 1..Len(queue) : queue[i].user = u /\ queue[i].kind = "text"

----------------------------------------------------------------------------
(* C4 *)

\* The position in appended[u] of the message stored at index i of the
\* context of u, when the context is the system message followed by the
\* most recent appended messages.
Off(u) == Len(appended[u]) - (Len(user_context[u]) - 1)

\* The non-system part of the context is the tail of what was appended since
\* the last reset: nothing duplicated, skipped or reordered.
IsTailOfAppended(u) ==
    /\ Off(u) >= 0
    /\ \A i \in 2..Len(user_context[u]) :
           user_context[u][i] = appended[u][Off(u) + i - 1].msg

\* The user messages were appended in the order their updates arrived.
UsersInArrivalOrder(u) ==
    \A j, k \in 1..Len(appended[u]) :
        (/\ j < k
         /\ appended[u][j].msg.role = "user"
         /\ appended[u][k].msg.role = "user")
        => appended[u][j].turn < appended[u][k].turn

\* The message stored at index i answers the one stored right before it.
FollowsItsUser(u, i) ==
    /\ i >= 3
    /\ user_context[u][i - 1].role = "user"
    /\ appended[u][Off(u) + i - 2].turn = appended[u][Off(u) + i - 1].turn

\* The message stored at index 2 answers the message evicted last.
FollowsEvictedUser(u, i) ==
    /\ i = 2
    /\ Off(u) >= 1
    /\ appended[u][Off(u)].msg.role = "user"
    /\ appended[u][Off(u)].turn = appended[u][Off(u) + 1].turn

\* C4 (as stated): the context of a user is the tail of the messages appended
\* in arrival order, and every assistant message in it is immediately
\* preceded by the user message it answers.
C4_AssistantFollowsItsUser ==
    \A u \in Present :
        /\ IsTailOfAppended(u)
        /\ UsersInArrivalOrder(u)
        /\ \A i \in 2..Len(user_context[u]) :
               user_context[u][i].role = "assistant" => FollowsItsUser(u, i)

\* C4 (amended): as C4, except that the oldest retained message may be an
\* assistant message whose user message was the last one evicted by the
\* trim.
C4_SerializedExchanges ==
    \A u \in Present :
        /\ IsTailOfAppended(u)
        /\ UsersInArrivalOrder(u)
        /\ \A i \in 2..Len(user_context[u]) :
               user_context[u][i].role = "assistant" =>
                   FollowsItsUser(u, i) \/ FollowsEvictedUser(u, i)

\* Two exchanges of one user are stored one after the other.
C4_Witness ==
    \E u \in Present :
        /\ Len(user_context[u]) >= 5
        /\ \E i \in 2..(Len(user_context[u]) - 3) :
               /\ user_context[u][i].role = "user"
               /\ user_context[u][i + 1].role = "assistant"
               /\ user_context[u][i + 2].role = "user"
               /\ user_context[u][i + 3].role = "assistant"

----------------------------------------------------------------------------
(* C5 *)

IsResetOf(step, u) == step.act \in {"start", "clear"} /\ step.user = u

\* The user message of turn id is among the messages appended for u since
\* the last reset of u.
UserAppendedSinceReset(u, id) ==
    \E j \in 1..Len(appended[u]) :
        appended[u][j].msg.role = "user" /\ appended[u][j].turn = id

\* A reset of u takes effect only while no turn of u is in flight, and an
\* assistant message is appended only to a context that still descends from
\* the append of the turn's user message.
ResetExcludesTurn ==
    \A u \in Users :
        /\ IsResetOf(last', u) => InFlight(u) = {}
        /\ (last'.act = "assistant_append" /\ last'.user = u)
              => UserAppendedSinceReset(u, last'.id)

\* C5 (as stated): a start or clear of a user never takes effect between the
\* two appends of a turn of that user, no reply of a turn from before a
\* reset is appended after it, and no context has the form
\* [system, assistant, ...].
C5_NoAssistantAfterSystem ==
    [][/\ ResetExcludesTurn
       /\ \A u \in Present' :
              Len(user_context'[u]) >= 2 => user_context'[u][2].role # "assistant"]_vars

\* C5 (amended): as C5, but a context of the form [system, assistant, ...]
\* is excluded only for contexts that were never trimmed, that is, contexts
\* of fewer than MAX_CONTEXT_LENGTH messages.
C5_ResetHonoursExclusion ==
    [][/\ ResetExcludesTurn
       /\ \A u \in Present' :
              (/\ Len(user_context'[u]) >= 2
               /\ user_context'[u][2].role = "assistant")
              => Len(user_context'[u]) >= MAX_CONTEXT_LENGTH]_vars

\* A reset command of a user waits while a turn of that user is in flight.
C5_Witness ==
    \E u \in Users :
        /\ InFlight(u) # {}
        /\ \E i \in 1..Len(queue) :
               queue[i].user = u /\ queue[i].kind \in {"start", "clear"}

----------------------------------------------------------------------------
(* C6 *)

\* The messages appended for u since its last reset, without their turns.
AppendedMsgs(u) == [j \in 1..Len(appended[u]) |-> appended[u][j].msg]

MostRecent(s, n) == SubSeq(s, Len(s) - n + 1, Len(s))

\* C6 (as stated): right after an append that brings the number of messages
\* appended for a user since the last reset to MAX_CONTEXT_LENGTH or more,
\* the context is the system message followed by exactly the most recent
\* MAX_CONTEXT_LENGTH - 1 of them, in order.
C6_FifoEviction ==
    \A u \in Present :
        (/\ IsAppend
         /\ last.user = u
         /\ Len(appended[u]) >= MAX_CONTEXT_LENGTH)
        => user_context[u] =
             <<SystemMessage>> \o MostRecent(AppendedMsgs(u), MAX_CONTEXT_LENGTH - 1)

----------------------------------------------------------------------------
(* C7 *)

\* C7: a step taken for one user leaves the store entry of every other user
\* as it was, its presence included.
C7_Isolation ==
    [][\A b \in Users :
          b # last'.user =>
              /\ (b \in Present') <=> (b \in Present)
              /\ b \in Present => user_context'[b] = user_context[b]]_vars

\* A step has just changed the entry of one user while another user has a
\* conversation stored.
C7_Witness ==
    \E a, b \in Users :
        /\ a # b
        /\ last.user = a
        /\ last.act \in {"user_append", "assistant_append", "start", "clear"}
        /\ b \in Present
        /\ Len(user_context[b]) >= 2

----------------------------------------------------------------------------
(* C8 *)

\* size(user_id): the non-system messages of a context, 0 without a context.
Size(c) == Cardinality({i \in 1..Len(c) : c[i].role # "system"})

\* C8 (as stated): the count a clear reports is the number of non-system
\* messages the context held right before the reset, 0 for a user without a
\* context, and never negative.
C8_RemovedCount ==
    \A id \in DOMAIN tasks :
        tasks[id].kind = "clear" =>
            /\ tasks[id].count = Size(tasks[id].pre)
            /\ tasks[id].count >= 0

----------------------------------------------------------------------------
(* C9 *)

\* C9: right after a start or a clear the context of the user is exactly
\* [system], and a clear that finds the context [system], as a reset leaves
\* it, reports 0 removed messages.
C9_ResetIdempotence ==
    /\ last.act \in {"start", "clear"} =>
           /\ last.user \in Present
           /\ user_context[last.user] = <<SystemMessage>>
    /\ \A id \in DOMAIN tasks :
           (tasks[id].kind = "clear" /\ tasks[id].pre = <<SystemMessage>>)
           => tasks[id].count = 0

\* A clear has just run on the context an earlier reset of the same user
\* left.
C9_Witness ==
    /\ last.act = "clear"
    /\ last.id \in DOMAIN tasks
    /\ tasks[last.id].pre = <<SystemMessage>>
    /\ \E i \in 1..Len(outbox) :
           /\ outbox[i].user = last.user
           /\ outbox[i].kind \in {"welcome", "cleared"}

----------------------------------------------------------------------------
(* C10 *)

\* The context a turn starts from: the stored one, or [system] for a user
\* without an entry.
Base(t) == IF t.pre = NoEntry THEN <<SystemMessage>> ELSE t.pre

\* c is base extended by the user message t and the assistant message r,
\* with d >= 0 of the oldest non-system messages of base dropped, and some
\* dropped only if that leaves MAX_CONTEXT_LENGTH messages before r.
ExtendsUpToTrim(c, base, t, r) ==
    /\ Len(c) >= 3
    /\ c[1] = base[1]
    /\ c[Len(c) - 1] = Msg("user", t)
    /\ c[Len(c)] = Msg("assistant", r)
    /\ \E d \in 0..(Len(base) - 1) :
           /\ SubSeq(c, 2, Len(c) - 2) = SubSeq(base, 2 + d, Len(base))
           /\ d > 0 => Len(c) - 1 = MAX_CONTEXT_LENGTH

\* C10: once the backend has returned reply text r, the context is the one
\* the turn started from, extended by user:t and assistant:r up to the
\* trim, and the text delivered at the end of the turn is r.
C10_SuccessfulTurn ==
    /\ \A id \in DOMAIN tasks :
           tasks[id].pc = "replying" =>
               ExtendsUpToTrim(user_context[tasks[id].user], Base(tasks[id]),
                               tasks[id].text, tasks[id].resp)
    /\ (last.act = "replied" /\ outbox[Len(outbox)].kind = "reply") =>
           LET c == user_context[last.user]
           IN /\ c[Len(c)] = Msg("assistant", outbox[Len(outbox)].payload)
              /\ c[Len(c) - 1] = Msg("user", Text(last.id))
              /\ outbox[Len(outbox)].payload \in Replies

\* A reply text has been appended in a turn whose user message was stored
\* with a trim.
C10_Witness ==
    \E id \in DOMAIN tasks :
        /\ tasks[id].pc = "replying"
        /\ Len(tasks[id].pre) >= MAX_CONTEXT_LENGTH

----------------------------------------------------------------------------
(* C11 *)

\* C11: a backend call that fails by connection failure, error status,
\* timeout or a response without choices never leaves handle_message as an
\* exception: the handler enters its except branch, and it ends by sending
\* the error message of that turn.
C11_NoFailureEscapes ==
    [][/\ last'.act # "escaped"
       /\ \A id \in DOMAIN tasks :
              /\ (last'.act = "backend_failed" /\ last'.id = id) =>
                     /\ id \in DOMAIN tasks'
                     /\ tasks'[id].pc = "reporting"
                     /\ tasks'[id].error \in Errors \cup {"IndexError"}
              /\ (tasks[id].pc = "reporting" /\ id \notin DOMAIN tasks') =>
                     /\ Len(outbox') = Len(outbox) + 1
                     /\ outbox'[Len(outbox')].id = id
                     /\ outbox'[Len(outbox')].kind = "error"]_vars

\* The error message of a turn whose backend call timed out has been sent.
C11_Witness ==
    /\ last.act = "replied"
    /\ outbox # << >>
    /\ outbox[Len(outbox)].kind = "error"
    /\ outbox[Len(outbox)].payload = <<"APITimeoutError", 0>>

----------------------------------------------------------------------------
(* C12 *)

\* The positions in outbox of the outcomes of user u, help texts aside.
OutcomesOf(u) ==
    {i \in 1..Len(outbox) : outbox[i].user = u /\ outbox[i].kind # "help"}

\* The most recent outcome of user u; only used when there is one.
LastOutcome(u) ==
    outbox[CHOOSE i \in OutcomesOf(u) : \A j \in OutcomesOf(u) : j <= i]

\* The previous turn of user u ended with the error message and no reset of
\* u has run since.
PreviousTurnFailed(u) == OutcomesOf(u) # {} /\ LastOutcome(u).kind = "error"

\* C12 (as stated): a text turn issues one backend call, none before its
\* request and never a second one, and the request of the turn that follows
\* a failed turn of the same user ends with the user message of the failed
\* turn immediately followed by the new user message.
C12_OneCallCarryForward ==
    \A id \in DOMAIN tasks :
        tasks[id].kind = "text" =>
            /\ tasks[id].calls = IF tasks[id].pc = "typing" THEN 0 ELSE 1
            /\ (tasks[id].pc = "awaiting" /\ PreviousTurnFailed(tasks[id].user))
                 => LET q == tasks[id].request
                        n == Len(q)
                    IN /\ n >= 3
                       /\ q[n] = Msg("user", tasks[id].text)
                       /\ q[n - 1] = Msg("user", Text(LastOutcome(tasks[id].user).id))

----------------------------------------------------------------------------
(* C13 *)

\* The non-system messages of a stored list; none for a user without entry.
History(d, u) == IF u \in DOMAIN d THEN Tail(d[u]) ELSE << >>

\* new is old with its first d messages dropped and at most one message
\* appended; what is kept is kept in place and unchanged.
FrontDropAndAppend(old, new) ==
    \E d \in 0..Len(old), k \in {0, 1} :
        /\ Len(new) = Len(old) - d + k
        /\ SubSeq(new, 1, Len(old) - d) = SubSeq(old, d + 1, Len(old))

\* C13: every step other than a reset of the user changes the non-system
\* history of a user only by dropping messages from its front and appending
\* at most one message at its end, and leaves the system message in place.
C13_OrderPreserved ==
    [][\A u \in Users :
          ~IsResetOf(last', u) =>
              /\ FrontDropAndAppend(History(user_context, u),
                                    History(user_context', u))
              /\ u \in Present => /\ u \in Present'
                                  /\ user_context'[u][1] = user_context[u][1]]_vars

\* The user message just appended made the trim drop messages.
C13_Witness ==
    /\ last.act = "user_append"
    /\ last.id \in DOMAIN tasks
    /\ Len(tasks[last.id].pre) >= MAX_CONTEXT_LENGTH
    /\ Len(user_context[last.user]) = MAX_CONTEXT_LENGTH

----------------------------------------------------------------------------
(* C14 *)

\* C14: the request a turn has issued is the whole context stored for its
\* user when the call was made: the system directive first, then the most
\* recent appended messages in order, the user message of this turn last.
C14_RequestIsWholeContext ==
    \A id \in DOMAIN tasks :
        tasks[id].pc = "awaiting" =>
            LET q == tasks[id].request
                u == tasks[id].user
            IN /\ q = user_context[u]
               /\ q[1] = SystemMessage
               /\ Len(q) >= 2
               /\ q[Len(q)] = Msg("user", tasks[id].text)
               /\ IsTailOfAppended(u)
               /\ appended[u][Len(appended[u])].turn = id

\* A request of MAX_CONTEXT_LENGTH messages, issued after a trim.
C14_Witness ==
    \E id \in DOMAIN tasks :
        /\ tasks[id].pc = "awaiting"
        /\ Len(tasks[id].request) = MAX_CONTEXT_LENGTH
        /\ Len(tasks[id].pre) >= MAX_CONTEXT_LENGTH

----------------------------------------------------------------------------
(* C15 *)

\* C15 (as stated): in a turn whose backend call failed, the context is one
\* message longer than the context the turn started from ([system] for a
\* user without entry), whatever that length was.
C15_FailureAddsOne ==
    \A id \in DOMAIN tasks :
        tasks[id].pc = "reporting" =>
            Len(user_context[tasks[id].user]) = Len(Base(tasks[id])) + 1

\* Beside C15: when the call raises or returns no choices, the context is
\* one message longer, capped at MAX_CONTEXT_LENGTH by the trim.
C15_FailureAddsOneCapped ==
    \A id \in DOMAIN tasks :
        (tasks[id].pc = "reporting" /\ tasks[id].error # "TypeError") =>
            Len(user_context[tasks[id].user]) =
                IF Len(Base(tasks[id])) + 1 > MAX_CONTEXT_LENGTH
                THEN MAX_CONTEXT_LENGTH
                ELSE Len(Base(tasks[id])) + 1

----------------------------------------------------------------------------
(* C16 *)

TextTasks == {id \in DOMAIN tasks : tasks[id].kind = "text"}

\* While handler id is suspended, no other handler starts and only handler
\* id changes the store.
OnlyRunning(id) ==
    /\ DOMAIN tasks' \subseteq DOMAIN tasks
    /\ user_context' # user_context => last'.id = id

\* C16 (as stated): a turn is suspended nowhere but at its backend call, and
\* while it is suspended no other handler runs or changes the store.
C16_OnlySuspensionPoint ==
    [][\A id \in TextTasks :
          /\ tasks[id].pc = "awaiting"
          /\ OnlyRunning(id)]_vars

\* C16 (amended): a turn is also suspended at send_chat_action, before its
\* request, and at reply_text, after its appends; wherever it is suspended,
\* no other handler runs or changes the store, and the reply is received
\* and appended in one step.
C16_NoHandlerInBetween ==
    [][\A id \in TextTasks :
          /\ tasks[id].pc \in {"typing", "awaiting", "replying", "reporting"}
          /\ OnlyRunning(id)
          /\ (tasks[id].pc = "awaiting" /\ id \in DOMAIN tasks'
               /\ tasks'[id].pc = "replying")
              => user_context'[tasks[id].user] =
                   Append(user_context[tasks[id].user],
                          Msg("assistant", tasks'[id].resp))]_vars

\* A turn is suspended before its request while another update waits.
C16_Witness ==
    \E id \in TextTasks : tasks[id].pc = "typing" /\ queue # << >>

----------------------------------------------------------------------------
(* C17 *)

\* The outcomes sent for update id.
OutcomesFor(id) == {i \in 1..Len(outbox) : outbox[i].id = id}

\* Update id has been handled to the end: it neither waits nor runs, and
\* its backend call was not cancelled.
Finished(id) ==
    /\ id \in 1..arrived
    /\ \A i \in 1..Len(queue) : queue[i].id # id
    /\ id \notin DOMAIN tasks
    /\ ~(last.act = "cancelled" /\ last.id = id)

\* The turn of update id has appended an assistant message for user u.
AppendedAssistant(u, id) ==
    \E j \in 1..Len(appended[u]) :
        appended[u][j].turn = id /\ appended[u][j].msg.role = "assistant"

\* C17 (as stated, for turns whose backend call has returned or failed): no
\* update ever has two outcomes, a handled one has exactly one, and the error
\* message is sent only in a turn that appended no assistant message.
C17_ExactlyOneOutcome ==
    /\ \A id \in 1..arrived :
           /\ Cardinality(OutcomesFor(id)) <= 1
           /\ Finished(id) => Cardinality(OutcomesFor(id)) = 1
    /\ (/\ last.act = "replied"
        /\ outbox[Len(outbox)].kind = "error")
       => ~AppendedAssistant(last.user, last.id)

----------------------------------------------------------------------------
(* C18 *)

\* C18: with the turns of a user run one at a time, a stored context never
\* holds more than MAX_CONTEXT_LENGTH + 1 messages and a request handed to
\* the backend never more than MAX_CONTEXT_LENGTH.
C18_StoredAndSentBounds ==
    /\ \A u \in Present : Len(user_context[u]) <= MAX_CONTEXT_LENGTH + 1
    /\ \A id \in TextTasks :
           /\ Len(tasks[id].request) <= MAX_CONTEXT_LENGTH
           /\ tasks[id].pc = "typing" =>
                  Len(user_context[tasks[id].user]) <= MAX_CONTEXT_LENGTH

\* Both bounds are met: the request held MAX_CONTEXT_LENGTH messages and the
\* reply made the stored context one longer.
C18_Witness ==
    \E id \in TextTasks :
        /\ tasks[id].pc = "replying"
        /\ Len(tasks[id].request) = MAX_CONTEXT_LENGTH
        /\ Len(user_context[tasks[id].user]) = MAX_CONTEXT_LENGTH + 1

====
